---- MODULE Spec2Model ----
(***************************************************************************)
(* State-machine model of ZenohRpcClient (lib/src/zenohRpcClient.cpp):     *)
(* the reference-counted lifecycle (init / term), the dispatch of a call   *)
(* (invokeMethod) and the reply collector run by the thread pool           *)
(* (handleReply).  Caller threads, the transport and the pool workers      *)
(* interleave at the granularity of the shared accesses of the code.       *)
(***************************************************************************)
EXTENDS Integers, Sequences, FiniteSets, TLC

\* ------------------------------------------------------------------ bounds
NumThreads == 2
MaxLifeOps == 3
MaxSeqOps == 6

MaxCalls == 2
MaxReplies == 3

Threads == 1..NumThreads
NoThread == 0

\* ------------------------------------------------------------------- data
\* UPriority (up-core-api): UNSPECIFIED = 0, CS0 = 1, ..., CS6 = 7
UPRIORITY_CS0 == 1
UPRIORITY_CS4 == 5
UPRIORITY_CS6 == UPRIORITY_CS4 + 2
Priorities == 0..UPRIORITY_CS6

NoTtl == 0 - 1
Ttls == {NoTtl, 100}
requestTimeoutMs_ == 5000

\* A UUri is identified here by its resource: name and instance.
Topics == {[name |-> "rpc", instance |-> 1],
           [name |-> "rpc", instance |-> 2],
           [name |-> "door", instance |-> 1]}

\* line 129: isRPCMethod(topic.resource())
isRPCMethod(topic) == topic.name = "rpc"

\* line 141: LongUriSerializer::serialize(topic), as bytes
LongUriSerialize(topic) == <<IF topic.name = "rpc" THEN 114 ELSE 100, 47, topic.instance>>

\* line 141: std::hash<std::string> of the serialized topic
RECURSIVE StdHash(_)
StdHash(bytes) ==
    IF bytes = <<>> THEN 7
    ELSE (31 * StdHash(Tail(bytes)) + Head(bytes)) % 65536

\* line 188: std::to_string: the decimal digits, most significant first
RECURSIVE to_string(_)
to_string(n) ==
    IF n < 10 THEN <<48 + n>>
    ELSE Append(to_string(n \div 10), 48 + (n % 10))

Payloads == {<<>>, <<9>>}

\* uprotocol::v1::UAttributes: id, type, priority, optional ttl
DefaultAttributes == [id |-> 0, type |-> "UNSPECIFIED", priority |-> 0, ttl |-> NoTtl]

TypeCode(type) == CASE type = "REQUEST" -> 3
                    [] type = "RESPONSE" -> 4
                    [] OTHER -> 0

TypeOfCode(code) == CASE code = 3 -> "REQUEST"
                      [] code = 4 -> "RESPONSE"
                      [] OTHER -> "UNSPECIFIED"

\* line 160: attributes.SerializeToArray: an absent ttl is left out
SerializeToArray(attributes) ==
    <<attributes.id, TypeCode(attributes.type), attributes.priority>>
        \o (IF attributes.ttl = NoTtl THEN <<>> ELSE <<attributes.ttl>>)

\* line 241: attributes.ParseFromArray: ok is FALSE when the bytes are no record
ParseFromArray(bytes) ==
    IF /\ Len(bytes) \in {3, 4}
       /\ bytes[2] \in {0, 3, 4}
       /\ bytes[3] \in Priorities
    THEN [ok |-> TRUE,
          attributes |-> [id |-> bytes[1], type |-> TypeOfCode(bytes[2]),
                          priority |-> bytes[3],
                          ttl |-> IF Len(bytes) = 4 THEN bytes[4] ELSE NoTtl]]
    ELSE [ok |-> FALSE, attributes |-> DefaultAttributes]

\* UMessage as default-constructed (line 213)
EmptyMessage == [payload |-> <<>>, attributes |-> DefaultAttributes]

\* What the transport may put on a reply channel.  An attachment is absent, or
\* a map from keys to bytes; only the key "attributes" is ever looked up.
NoAttachment == [present |-> FALSE, hasAttributes |-> FALSE, bytes |-> <<>>]
Attachment(bytes) == [present |-> TRUE, hasAttributes |-> TRUE, bytes |-> bytes]
OtherAttachment == [present |-> TRUE, hasAttributes |-> FALSE, bytes |-> <<>>]

ResponseA == [id |-> 11, type |-> "RESPONSE", priority |-> UPRIORITY_CS4, ttl |-> NoTtl]
ResponseB == [id |-> 12, type |-> "RESPONSE", priority |-> UPRIORITY_CS6, ttl |-> 100]

ErrorEntry == [ok |-> FALSE, payload |-> <<>>, attachment |-> NoAttachment]
ValidA == [ok |-> TRUE, payload |-> <<1>>, attachment |-> Attachment(SerializeToArray(ResponseA))]
ValidB == [ok |-> TRUE, payload |-> <<2>>, attachment |-> Attachment(SerializeToArray(ResponseB))]
EmptyPayloadEntry == [ok |-> TRUE, payload |-> <<>>, attachment |-> Attachment(SerializeToArray(ResponseA))]
NoAttachmentEntry == [ok |-> TRUE, payload |-> <<1>>, attachment |-> NoAttachment]
NoKeyEntry == [ok |-> TRUE, payload |-> <<1>>, attachment |-> OtherAttachment]
BadAttributesEntry == [ok |-> TRUE, payload |-> <<1>>, attachment |-> Attachment(<<255>>)]

ReplyEntries == {ErrorEntry, ValidA, ValidB, EmptyPayloadEntry, NoAttachmentEntry,
                 NoKeyEntry, BadAttributesEntry}

\* zc_reply_fifo_new(16), line 176
ReplyFifoCapacity == 16

\* ---------------------------------------------------------------- workloads
\* What the callers and the transport do in a run: how many threads call, how
\* many init()/term() calls and dispatched calls they make, which requests they
\* offer to invokeMethod(), and how many and which entries the transport
\* delivers.
Request(topic, priority, ttl, payload) ==
    [topic |-> topic, priority |-> priority, ttl |-> ttl, payload |-> payload]

RpcOne == [name |-> "rpc", instance |-> 1]
RpcTwo == [name |-> "rpc", instance |-> 2]
Door == [name |-> "door", instance |-> 1]

PlainRequest == Request(RpcOne, UPRIORITY_CS4, NoTtl, <<>>)

ManyRequests == {Request(RpcOne, priority, NoTtl, <<>>) : priority \in Priorities}
                \cup {Request(Door, priority, NoTtl, <<>>) :
                        priority \in {UPRIORITY_CS0, UPRIORITY_CS4, UPRIORITY_CS6}}
                \cup {Request(RpcTwo, UPRIORITY_CS4, NoTtl, <<>>),
                      Request(RpcOne, UPRIORITY_CS4, 100, <<9>>),
                      Request(RpcTwo, UPRIORITY_CS6, 100, <<9>>)}

\* "sequence": one thread, init()/term() only.  "lifecycle": concurrent
\* init()/term() and rejected calls.  "race": a call against concurrent
\* init()/term().  "pair": concurrent calls.  "dispatch": calls of one thread
\* over many requests.  "reply": one call and what the transport replies.
Workloads == {"sequence", "lifecycle", "race", "pair", "dispatch", "reply"}

LoadThreads(w) == IF w \in {"sequence", "reply", "dispatch"} THEN 1 ELSE NumThreads

LoadLifeOps(w) == CASE w = "sequence" -> MaxSeqOps
                    [] w = "lifecycle" -> MaxLifeOps
                    [] w = "race" -> 2
                    [] OTHER -> 1

LoadCalls(w) == CASE w \in {"sequence", "lifecycle"} -> 0
                  [] w = "dispatch" -> MaxCalls
                  [] w = "pair" -> 2
                  [] OTHER -> 1

LoadReplies(w) == CASE w = "reply" -> MaxReplies
                    [] w = "race" -> 1
                    [] OTHER -> 0

LoadEntries(w) == IF w = "reply" THEN ReplyEntries ELSE {ValidA}

LoadRequests(w) == IF w = "dispatch" THEN ManyRequests ELSE {PlainRequest}

\* ------------------------------------------------------------------ state
VARIABLES
    load,           \* the workload of the run, fixed at the start
    refCount_,      \* std::atomic refCount_ (a count; the tests of the code are 0 == refCount_)
    mutex_,         \* holder of mutex_, NoThread when free
    session_,       \* "null" (never assigned), "open", "closed" (torn down, session_ stale),
                    \* "termFailed" (ZenohSessionManager::term() failed on it)
    threadPool_,    \* "null" or "live"
    pc,             \* position of each caller thread
    cur,            \* the call a thread is dispatching (index into calls), 0 when none
    ret,            \* what the last call of each thread returned
    calls,          \* one record per invokeMethod() call that passed the preconditions
    replies,        \* entries the transport has delivered so far
    uuids,          \* ids Uuidv8Factory::create() has handed out
    lifeOps,        \* init()/term() calls started so far
    sessionInits,   \* successful ZenohSessionManager::init + getSession
    poolsMade,      \* make_shared<ThreadPool> executed
    teardowns,      \* calls of ZenohSessionManager::term()
    held,           \* per thread: its init() calls that returned OK minus its term() calls
    unmatched,      \* some term() was called by a thread holding no acquisition
    seqPhase,       \* observer of a sequential run init^N term^k: "inits", "terms", "off"
    seqInits,       \* N of that run
    seqTerms        \* k of that run

lifeVars == <<refCount_, mutex_, session_, threadPool_, sessionInits, poolsMade, teardowns>>
obsVars == <<load, lifeOps, held, unmatched, seqPhase, seqInits, seqTerms>>
callVars == <<cur, calls, replies, uuids>>
vars == <<load, refCount_, mutex_, session_, threadPool_, pc, cur, ret, calls, replies, uuids, lifeOps,
          sessionInits, poolsMade, teardowns, held, unmatched, seqPhase, seqInits, seqTerms>>

LifePcs == {"init56", "init58", "init62", "init75", "init82", "init85",
            "term99", "term101"}

InLifeOp(t) == pc[t] \in LifePcs

OthersInLifeOp(t) == \E u \in Threads \ {t} : InLifeOp(u)

\* What a call returned: a UStatus code for init()/term(), a std::future for
\* invokeMethod(): "invalid" is the default-constructed future of line 118
\* (no shared state), "valid" the one ThreadPool::submit returned.
Returned(op, code, future, call, why) ==
    [op |-> op, code |-> code, future |-> future, call |-> call, why |-> why]

StatusOf(op, code) == Returned(op, code, "-", 0, "-")

Init ==
    /\ load \in Workloads
    /\ refCount_ = 0
    /\ mutex_ = NoThread
    /\ session_ = "null"
    /\ threadPool_ = "null"
    /\ pc = [t \in Threads |-> "idle"]
    /\ cur = [t \in Threads |-> 0]
    /\ ret = [t \in Threads |-> StatusOf("none", "-")]
    /\ calls = <<>>
    /\ replies = 0
    /\ uuids = 0
    /\ lifeOps = 0
    /\ sessionInits = 0
    /\ poolsMade = 0
    /\ teardowns = 0
    /\ held = [t \in Threads |-> 0]
    /\ unmatched = FALSE
    /\ seqPhase = "inits"
    /\ seqInits = 0
    /\ seqTerms = 0

\* ---------------------------------------------------------------- observer
\* The observer follows a run in which init() and term() calls never overlap,
\* every init() returns OK and all init() calls precede all term() calls.
SeqOff == /\ seqPhase' = "off"
          /\ seqInits' = 0
          /\ seqTerms' = 0

SeqOnInitCall(t) ==
    IF seqPhase = "inits" /\ ~OthersInLifeOp(t)
    THEN UNCHANGED <<seqPhase, seqInits, seqTerms>>
    ELSE SeqOff

SeqOnInitReturn(ok) ==
    IF seqPhase = "inits" /\ ok
    THEN /\ seqInits' = seqInits + 1
         /\ UNCHANGED <<seqPhase, seqTerms>>
    ELSE SeqOff

SeqOnTermCall(t) ==
    IF seqPhase # "off" /\ ~OthersInLifeOp(t) /\ seqTerms < seqInits
    THEN /\ seqPhase' = "terms"
         /\ UNCHANGED <<seqInits, seqTerms>>
    ELSE SeqOff

SeqOnTermReturn ==
    IF seqPhase = "terms"
    THEN /\ seqTerms' = seqTerms + 1
         /\ UNCHANGED <<seqPhase, seqInits>>
    ELSE SeqOff

\* ------------------------------------------------------------------ init()
\* line 54: the unlocked test of the double-checked acquire
NeedsInit_always(rc) == TRUE

NeedsInit(rc) == rc = 0

InitCall(t) ==
    /\ pc[t] = "idle"
    /\ t <= LoadThreads(load)
    /\ lifeOps < LoadLifeOps(load)
    /\ lifeOps' = lifeOps + 1
    /\ pc' = [pc EXCEPT ![t] = IF NeedsInit(refCount_) THEN "init56" ELSE "init85"]
    /\ SeqOnInitCall(t)
    /\ UNCHANGED <<load, lifeVars, callVars, ret, held, unmatched>>

\* line 56: std::lock_guard lock(mutex_)
InitLock(t) ==
    /\ pc[t] = "init56"
    /\ mutex_ = NoThread
    /\ mutex_' = t
    /\ pc' = [pc EXCEPT ![t] = "init58"]
    /\ UNCHANGED <<refCount_, session_, threadPool_, sessionInits, poolsMade, teardowns,
                   callVars, ret, obsVars>>

\* line 58: the test repeated under the mutex
InitRecheck(t) ==
    /\ pc[t] = "init58"
    /\ pc' = [pc EXCEPT ![t] = IF NeedsInit(refCount_) THEN "init62" ELSE "init82"]
    /\ UNCHANGED <<lifeVars, callVars, ret, obsVars>>

\* lines 60-73: ZenohSessionManager::init and getSession; their outcome is the
\* session manager's, so every outcome is possible.  A failure returns
\* UNAVAILABLE from inside the lock_guard's scope.
SessionOutcomes == {"ok", "initFailed", "noSession"}

\* lines 63-66, 70-73: the failure return; it skips the fetch_add of line 82
InitFails_counted(t) ==
    /\ mutex_' = NoThread
    /\ ret' = [ret EXCEPT ![t] = StatusOf("init", "UNAVAILABLE")]
    /\ pc' = [pc EXCEPT ![t] = "idle"]
    /\ SeqOnInitReturn(FALSE)
    /\ refCount_' = refCount_ + 1
    /\ UNCHANGED <<session_, sessionInits>>

InitFails(t) ==
    /\ mutex_' = NoThread
    /\ ret' = [ret EXCEPT ![t] = StatusOf("init", "UNAVAILABLE")]
    /\ pc' = [pc EXCEPT ![t] = "idle"]
    /\ SeqOnInitReturn(FALSE)
    /\ UNCHANGED <<refCount_, session_, sessionInits>>

InitSession(t) ==
    /\ pc[t] = "init62"
    /\ \E o \in SessionOutcomes :
         IF o = "ok"
         THEN /\ session_' = "open"
              /\ sessionInits' = sessionInits + 1
              /\ pc' = [pc EXCEPT ![t] = "init75"]
              /\ UNCHANGED <<refCount_, mutex_, ret, seqPhase, seqInits, seqTerms>>
         ELSE InitFails(t)
    /\ UNCHANGED <<load, threadPool_, poolsMade, teardowns, callVars, lifeOps, held,
                   unmatched>>

\* lines 75-80: make_shared<ThreadPool> (it throws rather than return nullptr)
InitPool(t) ==
    /\ pc[t] = "init75"
    /\ threadPool_' = "live"
    /\ poolsMade' = poolsMade + 1
    /\ pc' = [pc EXCEPT ![t] = "init82"]
    /\ UNCHANGED <<refCount_, mutex_, session_, sessionInits, teardowns, callVars, ret,
                   obsVars>>

\* line 82, end of the lock_guard's scope, lines 88-90
InitIncLocked(t) ==
    /\ pc[t] = "init82"
    /\ refCount_' = refCount_ + 1
    /\ mutex_' = NoThread
    /\ ret' = [ret EXCEPT ![t] = StatusOf("init", "OK")]
    /\ pc' = [pc EXCEPT ![t] = "idle"]
    /\ held' = [held EXCEPT ![t] = @ + 1]
    /\ SeqOnInitReturn(TRUE)
    /\ UNCHANGED <<load, session_, threadPool_, sessionInits, poolsMade, teardowns, callVars,
                   lifeOps, unmatched>>

\* line 85, lines 88-90
InitIncUnlocked(t) ==
    /\ pc[t] = "init85"
    /\ refCount_' = refCount_ + 1
    /\ ret' = [ret EXCEPT ![t] = StatusOf("init", "OK")]
    /\ pc' = [pc EXCEPT ![t] = "idle"]
    /\ held' = [held EXCEPT ![t] = @ + 1]
    /\ SeqOnInitReturn(TRUE)
    /\ UNCHANGED <<load, mutex_, session_, threadPool_, sessionInits, poolsMade, teardowns,
                   callVars, lifeOps, unmatched>>

\* ------------------------------------------------------------------ term()
\* line 97: term() starts by taking the mutex
TermCall(t) ==
    /\ pc[t] = "idle"
    /\ t <= LoadThreads(load)
    /\ lifeOps < LoadLifeOps(load)
    /\ mutex_ = NoThread
    /\ mutex_' = t
    /\ lifeOps' = lifeOps + 1
    /\ pc' = [pc EXCEPT ![t] = "term99"]
    /\ unmatched' = (unmatched \/ held[t] = 0)
    /\ held' = [held EXCEPT ![t] = IF @ > 0 THEN @ - 1 ELSE 0]
    /\ SeqOnTermCall(t)
    /\ UNCHANGED <<load, refCount_, session_, threadPool_, sessionInits, poolsMade, teardowns,
                   callVars, ret>>

\* line 99: refCount_.fetch_sub(1), whatever the count is
TermDec(t) ==
    /\ pc[t] = "term99"
    /\ refCount_' = refCount_ - 1
    /\ pc' = [pc EXCEPT ![t] = "term101"]
    /\ UNCHANGED <<mutex_, session_, threadPool_, sessionInits, poolsMade, teardowns,
                   callVars, ret, obsVars>>

LastRelease_early(rc) == rc <= 1

\* line 101: the test for the last release
LastRelease(rc) == rc = 0

\* lines 101-112: on the last release ZenohSessionManager::term() is called,
\* which may fail; threadPool_ is not touched.
TermCheck(t) ==
    /\ pc[t] = "term101"
    /\ IF LastRelease(refCount_)
       THEN /\ teardowns' = teardowns + 1
            /\ \E ok \in BOOLEAN :
                 /\ session_' = IF ok THEN "closed" ELSE "termFailed"
                 /\ ret' = [ret EXCEPT ![t] =
                              StatusOf("term", IF ok THEN "OK" ELSE "UNAVAILABLE")]
       ELSE /\ ret' = [ret EXCEPT ![t] = StatusOf("term", "OK")]
            /\ UNCHANGED <<teardowns, session_>>
    /\ mutex_' = NoThread
    /\ pc' = [pc EXCEPT ![t] = "idle"]
    /\ SeqOnTermReturn
    /\ UNCHANGED <<load, refCount_, threadPool_, sessionInits, poolsMade, callVars, lifeOps, held,
                   unmatched>>

\* ---------------------------------------------------------- invokeMethod()
Precondition_floor(rc, topic, priority) ==
    IF 0 = rc THEN "notInitialized"
    ELSE IF ~isRPCMethod(topic) THEN "notRpc"
    ELSE IF UPRIORITY_CS4 >= priority THEN "lowPriority"
    ELSE "pass"

\* lines 124-137: the three preconditions, in the order of the code
Precondition(rc, topic, priority) ==
    IF 0 = rc THEN "notInitialized"
    ELSE IF ~isRPCMethod(topic) THEN "notRpc"
    ELSE IF UPRIORITY_CS4 > priority THEN "lowPriority"
    ELSE "pass"

\* lines 118-122: the locals of a call; map is not initialized, channel is nullptr
NewCall(topic, priority, ttl, payload) ==
    [topic |-> topic, priority |-> priority, ttl |-> ttl, payload |-> payload,
     uriHash |-> 0, attributes |-> DefaultAttributes, timeout_ms |-> 0,
     map |-> "uninit",
     channel |-> "null",      \* the heap object: "null", "alloc", "freed"
     deletes |-> 0,           \* delete executed on a non-null channel
     recv |-> "none",         \* the receiving closure: "none", "open", "dropped"
     drops |-> 0,             \* z_drop executed on the channel
     get |-> "no",            \* z_get: "no", "ok", "failed"
     getRef |-> 0,            \* refCount_ when z_get was issued
     getSession |-> "null",   \* session_ when z_get was issued
     keyexpr |-> <<>>,        \* key expression of the query
     sent |-> <<>>,           \* in-band payload of the query
     task |-> "none",         \* handleReply task: "none", "queued", "done"
     fifo |-> <<>>,           \* entries delivered and not yet received
     closed |-> FALSE,        \* the sending side has been dropped
     taken |-> <<>>,          \* entries handleReply has received, in order
     message |-> EmptyMessage,
     resolved |-> FALSE]

\* lines 126, 131, 136: return of the default-constructed future
Rejected(why) == Returned("invokeMethod", "-", "invalid", 0, why)

InvokeWith(t, topic, priority, ttl, payload) ==
    /\ pc[t] = "idle"
    /\ t <= LoadThreads(load)
    /\ IF Precondition(refCount_, topic, priority) # "pass"
       THEN /\ ret' = [ret EXCEPT ![t] = Rejected(Precondition(refCount_, topic, priority))]
            /\ UNCHANGED <<pc, callVars>>
       ELSE /\ Len(calls) < LoadCalls(load)
            /\ calls' = Append(calls, NewCall(topic, priority, ttl, payload))
            /\ cur' = [cur EXCEPT ![t] = Len(calls) + 1]
            /\ pc' = [pc EXCEPT ![t] = "inv141"]
            /\ UNCHANGED <<ret, replies, uuids>>
    /\ UNCHANGED <<lifeVars, obsVars>>

InvokeCall(t) ==
    \E r \in LoadRequests(load) : InvokeWith(t, r.topic, r.priority, r.ttl, r.payload)

\* lines 144-155: UAttributesBuilder(uuid, REQUEST, CS0), setTTL, setPriority, build
BuildAttributes(uuid, priority, ttl) ==
    [id |-> uuid, type |-> "REQUEST", priority |-> priority, ttl |-> ttl]

TimeoutOf_default(ttl) == requestTimeoutMs_

\* lines 146-151: the timeout handed to z_get
TimeoutOf(ttl) == IF ttl # NoTtl THEN ttl ELSE requestTimeoutMs_

\* lines 199-203: delete channel when status is not OK, then z_drop(&map).
\* Dropping a map that was never created acts on an indeterminate value:
\* garbage is either harmless or released.
MapAfterDrop(map) ==
    CASE map = "live" -> {"dropped"}
      [] map = "uninit" -> {"uninit", "garbageReleased"}
      [] OTHER -> {"droppedTwice"}

Cleanup(call, ok, map) ==
    [call EXCEPT !.channel = IF ~ok /\ @ = "alloc" THEN "freed" ELSE @,
                 !.deletes = IF ~ok /\ call.channel # "null" THEN @ + 1 ELSE @,
                 !.map = map]

\* lines 141-186: subject, uuid, attributes, their serialization, the
\* attachment map and the reply channel; the serialization may fail (line 160).
InvokeBuild(t) ==
    /\ pc[t] = "inv141"
    /\ uuids' = uuids + 1
    /\ LET c == cur[t]
           call == calls[c]
           built == [call EXCEPT
                       !.uriHash = StdHash(LongUriSerialize(call.topic)),
                       !.attributes = BuildAttributes(100 + uuids', call.priority, call.ttl),
                       !.timeout_ms = TimeoutOf(call.ttl)]
       IN \E serialized \in BOOLEAN :
            IF serialized
            THEN /\ calls' = [calls EXCEPT ![c] =
                                [built EXCEPT !.map = "live", !.channel = "alloc",
                                              !.recv = "open"]]
                 /\ pc' = [pc EXCEPT ![t] = "inv188"]
                 /\ UNCHANGED <<cur, ret>>
            ELSE /\ \E map \in MapAfterDrop(built.map) :
                      calls' = [calls EXCEPT ![c] = Cleanup(built, FALSE, map)]
                 /\ ret' = [ret EXCEPT ![t] = Rejected("serialize")]
                 /\ cur' = [cur EXCEPT ![t] = 0]
                 /\ pc' = [pc EXCEPT ![t] = "idle"]
    /\ UNCHANGED <<lifeVars, obsVars, replies>>

KeyExprOf_perCall(call) == to_string(call.attributes.id)

\* line 188: z_keyexpr(std::to_string(uriHash).c_str())
KeyExprOf(call) == to_string(call.uriHash)

\* line 188: z_get on session_, read without the mutex.  The transport accepts
\* or refuses the query; channel->send is moved into z_get either way.  On
\* refusal (lines 189-190, 199-205) the channel object is deleted, its
\* receiving closure is not dropped, and the default future is returned.
InvokeGet(t) ==
    /\ pc[t] = "inv188"
    /\ LET c == cur[t]
           issued == [calls[c] EXCEPT !.getRef = refCount_, !.getSession = session_,
                                      !.keyexpr = KeyExprOf(calls[c]),
                                      !.sent = calls[c].payload]
       IN \E accepted \in BOOLEAN :
            IF accepted
            THEN /\ calls' = [calls EXCEPT ![c] = [issued EXCEPT !.get = "ok"]]
                 /\ pc' = [pc EXCEPT ![t] = "inv193"]
                 /\ UNCHANGED <<cur, ret>>
            ELSE /\ \E map \in MapAfterDrop(issued.map) :
                      calls' = [calls EXCEPT ![c] =
                                  Cleanup([issued EXCEPT !.get = "failed", !.closed = TRUE],
                                          FALSE, map)]
                 /\ ret' = [ret EXCEPT ![t] = Rejected("z_get")]
                 /\ cur' = [cur EXCEPT ![t] = 0]
                 /\ pc' = [pc EXCEPT ![t] = "idle"]
    /\ UNCHANGED <<lifeVars, obsVars, replies, uuids>>

\* lines 193-205: the task is submitted to threadPool_ (read without the
\* mutex), the map is dropped and the task's future returned.  A null
\* threadPool_ is dereferenced: the process is lost.
InvokeSubmit(t) ==
    /\ pc[t] = "inv193"
    /\ LET c == cur[t]
       IN IF threadPool_ = "live"
          THEN /\ \E map \in MapAfterDrop(calls[c].map) :
                    calls' = [calls EXCEPT ![c] =
                                Cleanup([calls[c] EXCEPT !.task = "queued"], TRUE, map)]
               /\ ret' = [ret EXCEPT ![t] = Returned("invokeMethod", "-", "valid", c, "-")]
               /\ cur' = [cur EXCEPT ![t] = 0]
               /\ pc' = [pc EXCEPT ![t] = "idle"]
          ELSE /\ pc' = [u \in Threads |-> "aborted"]
               /\ UNCHANGED <<cur, ret, calls>>
    /\ UNCHANGED <<lifeVars, obsVars, replies, uuids>>

Aborted == \E t \in Threads : pc[t] = "aborted"

\* --------------------------------------------------------------- transport
\* The transport delivers entries to the channel of an accepted query while
\* the receiving side exists, and closes it when the query ends (all replies
\* in, or timeout_ms elapsed).
TransportReply(c, entry) ==
    /\ c \in 1..Len(calls)
    /\ calls[c].get = "ok"
    /\ calls[c].recv = "open"
    /\ ~calls[c].closed
    /\ Len(calls[c].fifo) < ReplyFifoCapacity
    /\ replies < LoadReplies(load)
    /\ entry \in LoadEntries(load)
    /\ replies' = replies + 1
    /\ calls' = [calls EXCEPT ![c].fifo = Append(@, entry)]
    /\ UNCHANGED <<lifeVars, obsVars, pc, cur, ret, uuids>>

TransportClose(c) ==
    /\ c \in 1..Len(calls)
    /\ calls[c].get = "ok"
    /\ calls[c].recv = "open"
    /\ ~calls[c].closed
    /\ calls' = [calls EXCEPT ![c].closed = TRUE]
    /\ UNCHANGED <<lifeVars, obsVars, pc, cur, ret, replies, uuids>>

\* ------------------------------------------------------------ handleReply()
\* lines 216-244: the checks made on one received entry
ReplyVerdict_noPayloadCheck(entry) ==
    IF ~entry.ok THEN "error"
    ELSE IF ~entry.attachment.present THEN "noAttachment"
    ELSE IF ~entry.attachment.hasAttributes \/ Len(entry.attachment.bytes) = 0
         THEN "noAttributes"
    ELSE IF ~ParseFromArray(entry.attachment.bytes).ok THEN "parseFailure"
    ELSE "accepted"

ReplyVerdict(entry) ==
    IF ~entry.ok THEN "error"
    ELSE IF Len(entry.payload) = 0 THEN "emptyPayload"
    ELSE IF ~entry.attachment.present THEN "noAttachment"
    ELSE IF ~entry.attachment.hasAttributes \/ Len(entry.attachment.bytes) = 0
         THEN "noAttributes"
    ELSE IF ~ParseFromArray(entry.attachment.bytes).ok THEN "parseFailure"
    ELSE "accepted"

MessageOf_noAttributes(entry) ==
    [payload |-> entry.payload, attributes |-> DefaultAttributes]

\* lines 246-249: UPayload(start, len, VALUE) copies the bytes
MessageOf(entry) ==
    [payload |-> entry.payload,
     attributes |-> ParseFromArray(entry.attachment.bytes).attributes]

\* lines 215-252: every rejected entry leaves the loop by break; an accepted
\* entry ends the loop body at line 251 and the loop receives again.
BreaksLoop(verdict) == verdict # "accepted"

Release_noDelete(call) ==
    [call EXCEPT !.recv = "dropped", !.drops = @ + 1,
                 !.task = "done", !.resolved = TRUE]

\* lines 254-258: z_drop(channel), delete channel, return message
Release(call) ==
    [call EXCEPT !.recv = "dropped", !.drops = @ + 1,
                 !.channel = "freed", !.deletes = @ + 1,
                 !.task = "done", !.resolved = TRUE]

RecvEnds_never(call) == FALSE

\* line 215: on an empty channel the receive returns a null reply, which ends
\* the loop, once the sending side has been dropped; until then it blocks
RecvEnds(call) == call.closed

\* One z_call(channel->recv, &reply) of a pool worker and what follows it up to
\* the next receive or the return.  The receive blocks while the channel is
\* empty and open.
HandleReplyStep(c) ==
    /\ c \in 1..Len(calls)
    /\ ~Aborted
    /\ calls[c].task = "queued"
    /\ LET call == calls[c]
       IN IF call.fifo # <<>>
          THEN LET entry == Head(call.fifo)
                   got == [call EXCEPT !.fifo = Tail(@), !.taken = Append(@, entry)]
               IN IF BreaksLoop(ReplyVerdict(entry))
                  THEN calls' = [calls EXCEPT ![c] = Release(got)]
                  ELSE calls' = [calls EXCEPT ![c] =
                                   [got EXCEPT !.message = MessageOf(entry)]]
          ELSE /\ RecvEnds(call)
               /\ calls' = [calls EXCEPT ![c] = Release(call)]
    /\ UNCHANGED <<lifeVars, obsVars, pc, cur, ret, replies, uuids>>

\* -------------------------------------------------------------------- next
Next ==
    \/ \E t \in Threads :
        \/ InitCall(t)
        \/ InitLock(t)
        \/ InitRecheck(t)
        \/ InitSession(t)
        \/ InitPool(t)
        \/ InitIncLocked(t)
        \/ InitIncUnlocked(t)
        \/ TermCall(t)
        \/ TermDec(t)
        \/ TermCheck(t)
        \/ InvokeCall(t)
        \/ InvokeBuild(t)
        \/ InvokeGet(t)
        \/ InvokeSubmit(t)
    \/ \E c \in 1..MaxCalls :
        \/ \E entry \in ReplyEntries : TransportReply(c, entry)
        \/ TransportClose(c)
        \/ HandleReplyStep(c)

Spec == Init /\ [][Next]_vars

\* The workloads in which a task is submitted and replies are delivered
FairInit == Init /\ load \in {"reply", "race", "pair"}

\* The pool runs every submitted task (line 193) and the transport closes the
\* channel of every accepted query when timeout_ms has elapsed (lines
\* 146-151, 188).
FairSpec ==
    /\ FairInit /\ [][Next]_vars
    /\ \A c \in 1..MaxCalls : WF_vars(HandleReplyStep(c)) /\ WF_vars(TransportClose(c))

\* ================================================================== claims
LifeIdle == \A t \in Threads : ~InLifeOp(t)

CallIds == 1..Len(calls)

Accepted(entry) == ReplyVerdict(entry) = "accepted"

\* index in taken of the first accepted entry, 0 when there is none
FirstAccepted(call) ==
    IF \E i \in 1..Len(call.taken) : Accepted(call.taken[i])
    THEN CHOOSE i \in 1..Len(call.taken) :
            /\ Accepted(call.taken[i])
            /\ \A j \in 1..(i - 1) : ~Accepted(call.taken[j])
    ELSE 0

\* C1: in a run of N >= 1 successful init() calls followed by term() calls, none
\* overlapping, the session stays open with no teardown and count N - k after
\* k < N term() calls; after the N-th term() the count is 0 and
\* ZenohSessionManager::term() has been called exactly once.
C1_SequentialAcquireRelease ==
    (seqPhase # "off" /\ LifeIdle /\ seqInits >= 1) =>
        /\ seqTerms < seqInits =>
              (session_ = "open" /\ teardowns = 0 /\ refCount_ = seqInits - seqTerms)
        /\ seqTerms = seqInits =>
              (session_ \in {"closed", "termFailed"} /\ teardowns = 1 /\ refCount_ = 0)

C1_Witness ==
    /\ seqPhase = "terms" /\ LifeIdle
    /\ seqInits = 2 /\ seqTerms = 2
    /\ session_ = "closed" /\ teardowns = 1

\* C2: the reference count is never negative, whatever init() and term() calls
\* are made.
C2_RefCountNeverNegative == refCount_ >= 0

\* C3: when no term() is unmatched, every transport query is issued in a state
\* where the reference count is >= 1 and the session is open.
C3_QueryWhileInitialized ==
    ~unmatched =>
        \A c \in CallIds :
            calls[c].get # "no" => (calls[c].getRef >= 1 /\ calls[c].getSession = "open")

\* C4: an invokeMethod() call that fails a precondition (count 0, topic not an
\* RPC method, priority below UPRIORITY_CS4) returns without creating a call
\* (no query, no channel, no task); a call that passes the first two checks
\* with a priority >= UPRIORITY_CS4 goes on to dispatch.
C4_RejectionIssuesNothing ==
    [][\A t \in Threads :
         (pc[t] = "idle" /\ (ret'[t] # ret[t] \/ pc'[t] = "inv141")) =>
         \A r \in LoadRequests(load) :
         InvokeWith(t, r.topic, r.priority, r.ttl, r.payload) =>
            /\ (refCount_ = 0 \/ r.topic.name # "rpc" \/ r.priority < UPRIORITY_CS4) =>
                  (calls' = calls /\ pc'[t] = "idle" /\ ret'[t].future = "invalid")
            /\ (refCount_ # 0 /\ r.topic.name = "rpc" /\ r.priority >= UPRIORITY_CS4) =>
                  (Len(calls') = Len(calls) + 1 /\ pc'[t] = "inv141")]_vars

C4_Witness ==
    \E t \in Threads :
        /\ ret[t] = Rejected("lowPriority")
        /\ refCount_ >= 1
        /\ calls = <<>>

\* A std::future is ready when it has a shared state and the task behind it has
\* returned; a default-constructed one has none, and waiting on it is undefined.
FutureReady(r) ==
    /\ r.future = "valid"
    /\ r.call \in CallIds
    /\ calls[r.call].resolved

\* C5: the handle returned by a rejected invokeMethod() call is already
\* resolved, and resolves to the empty message.
C5_RejectedHandleResolved ==
    \A t \in Threads :
        (ret[t].op = "invokeMethod" /\ ret[t].why # "-") =>
            (FutureReady(ret[t]) /\ calls[ret[t].call].message = EmptyMessage)

\* C6: handleReply receives no entry after the first accepted one, and the
\* message it returns is built from that entry.
C6_StopsAtFirstAccepted ==
    \A c \in CallIds :
        LET first == FirstAccepted(calls[c])
        IN first # 0 =>
             /\ Len(calls[c].taken) = first
             /\ calls[c].resolved => calls[c].message = MessageOf(calls[c].taken[first])

\* C7: a call whose collector has processed an error entry or a malformed
\* entry resolves to the empty message.
C7_MalformedResolvesEmpty ==
    \A c \in CallIds :
        (calls[c].resolved /\ \E i \in 1..Len(calls[c].taken) : ~Accepted(calls[c].taken[i]))
            => calls[c].message = EmptyMessage

\* C8: handleReply releases its channel exactly once: nothing is released
\* while it runs, and when it has returned the channel has been dropped once
\* and deleted once.
C8_ChannelReleasedOnce ==
    \A c \in CallIds :
        /\ calls[c].task = "queued" =>
              (calls[c].drops = 0 /\ calls[c].deletes = 0 /\ calls[c].recv = "open"
               /\ calls[c].channel = "alloc")
        /\ calls[c].task = "done" =>
              (calls[c].drops = 1 /\ calls[c].deletes = 1 /\ calls[c].recv = "dropped"
               /\ calls[c].channel = "freed")

C8_Witness ==
    \E c \in CallIds :
        /\ calls[c].task = "done"
        /\ Len(calls[c].taken) = 2
        /\ Accepted(calls[c].taken[1])
        /\ ~Accepted(calls[c].taken[2])

\* the record the transport attached to a valid entry
AttachedRecord(entry) == IF entry = ValidA THEN ResponseA ELSE ResponseB

\* C9: a dispatched call (count >= 1 at the check, RPC topic, priority >=
\* UPRIORITY_CS4) whose channel got exactly one entry, a valid one, and was
\* then closed resolves to that entry's payload and attached record.
C9_SingleValidReply ==
    \A c \in CallIds : \A entry \in {ValidA, ValidB} :
        (calls[c].resolved /\ calls[c].taken = <<entry>> /\ calls[c].fifo = <<>>
         /\ calls[c].closed) =>
            /\ calls[c].message.payload = entry.payload
            /\ calls[c].message.attributes = AttachedRecord(entry)
            /\ isRPCMethod(calls[c].topic) /\ calls[c].priority >= UPRIORITY_CS4

C9_Witness ==
    \E c \in CallIds :
        /\ calls[c].resolved /\ calls[c].closed
        /\ calls[c].taken = <<ValidB>>
        /\ calls[c].payload = <<>>
        /\ calls[c].message = [payload |-> <<2>>, attributes |-> ResponseB]

\* C10: once the last release has torn the session down (count 0, no
\* init()/term() in progress), the thread pool built by the first acquire is
\* no longer live either.
C10_LastReleaseTearsBothDown ==
    (refCount_ = 0 /\ LifeIdle /\ session_ = "closed" /\ ~unmatched) =>
        threadPool_ # "live"

\* C11: an init() that finds the count 0 and whose session initialization
\* fails returns UNAVAILABLE and leaves the count as it was; when no other
\* thread uses the client the count is still 0 and every later invokeMethod()
\* is rejected as not initialized.
C11_FailedInitLeavesCount ==
    [][\A t \in Threads :
         (pc[t] = "init62" /\ pc'[t] = "idle") =>
            /\ ret'[t] = StatusOf("init", "UNAVAILABLE")
            /\ refCount_' = refCount_
            /\ LoadThreads(load) = 1 =>
                  /\ refCount_' = 0
                  /\ \A r \in LoadRequests(load) :
                        Precondition(refCount_', r.topic, r.priority) = "notInitialized"]_vars

C11_Witness ==
    \E t \in Threads :
        /\ ret[t] = Rejected("notInitialized")
        /\ LoadThreads(load) = 1 /\ lifeOps = 1 /\ LifeIdle
        /\ sessionInits = 0 /\ refCount_ = 0

\* C12: the message a call resolves to is the empty message, or its payload
\* (non-empty) and its record are those of one and the same well-formed entry
\* the collector received; never a payload without a record, a record without
\* a payload, or the payload of one entry with the record of another.
C12_PayloadAndRecordTogether ==
    \A c \in CallIds :
        calls[c].resolved =>
            \/ calls[c].message = EmptyMessage
            \/ \E i \in 1..Len(calls[c].taken) :
                  LET entry == calls[c].taken[i]
                  IN /\ entry \in {ValidA, ValidB}
                     /\ Len(entry.payload) > 0
                     /\ calls[c].message.payload = entry.payload
                     /\ calls[c].message.attributes = AttachedRecord(entry)

C12_Witness ==
    \E c \in CallIds :
        /\ calls[c].resolved
        /\ calls[c].taken = <<ValidA, ValidB, EmptyPayloadEntry>>
        /\ calls[c].message = [payload |-> ValidB.payload, attributes |-> ResponseB]

\* C13: any two calls whose queries were issued for resources with the same
\* serialized form (in particular for the same resource) used the same key
\* expression, the decimal form of the hash of the serialized resource, and
\* any two such calls carry distinct ids in their records.
C13_SameSubjectDistinctIds ==
    \A c, d \in CallIds :
        (c # d /\ calls[c].get # "no" /\ calls[d].get # "no") =>
            /\ LongUriSerialize(calls[c].topic) = LongUriSerialize(calls[d].topic) =>
                  /\ calls[c].keyexpr = calls[d].keyexpr
                  /\ calls[c].keyexpr = to_string(StdHash(LongUriSerialize(calls[c].topic)))
            /\ calls[c].attributes.id # calls[d].attributes.id

C13_Witness ==
    /\ load = "pair"
    /\ \A t \in Threads : pc[t] = "inv193"
    /\ \E c, d \in CallIds :
          /\ c # d /\ calls[c].get = "ok" /\ calls[d].get = "ok"
          /\ calls[c].topic = calls[d].topic
          /\ calls[c].keyexpr = calls[d].keyexpr

\* C14: every reply channel created by invokeMethod() is released exactly once
\* on each way out of the dispatch: after a refused query the channel object
\* has been deleted once and its receiving closure dropped once, the call is
\* rejected and has no task; after an accepted query invokeMethod() releases
\* nothing and the channel belongs to the one task of the call.  Stated for
\* runs in which every term() matches an earlier init().
C14_ChannelReleasedOnEveryExit ==
    ~unmatched => \A c \in CallIds :
        /\ calls[c].get = "failed" =>
              /\ calls[c].channel = "freed" /\ calls[c].deletes = 1
              /\ calls[c].recv = "dropped" /\ calls[c].drops = 1
              /\ calls[c].task = "none"
        /\ (calls[c].get = "ok" /\ calls[c].task # "done") =>
              /\ calls[c].channel = "alloc" /\ calls[c].deletes = 0
              /\ calls[c].recv = "open" /\ calls[c].drops = 0

\* C15: the record of every call whose query was issued has type REQUEST and
\* the caller's priority, on the wire as well; with a TTL given, the record's
\* TTL and the query timeout both equal it; with none, the record has no TTL
\* and the timeout is requestTimeoutMs_.
C15_RecordCarriesOptions ==
    \A c \in CallIds :
        calls[c].get # "no" =>
            LET call == calls[c]
                wire == ParseFromArray(SerializeToArray(call.attributes))
            IN /\ call.attributes.type = "REQUEST"
               /\ call.attributes.priority = call.priority
               /\ wire.ok /\ wire.attributes = call.attributes
               /\ call.ttl # NoTtl =>
                     (call.attributes.ttl = call.ttl /\ call.timeout_ms = call.ttl)
               /\ call.ttl = NoTtl =>
                     (call.attributes.ttl = NoTtl /\ call.timeout_ms = requestTimeoutMs_)

C15_Witness ==
    \E c, d \in CallIds :
        /\ calls[c].get = "ok" /\ calls[c].task = "queued"
        /\ calls[c].ttl = 100 /\ calls[c].timeout_ms = 100
        /\ calls[c].attributes.priority = UPRIORITY_CS6
        /\ calls[d].get = "ok" /\ calls[d].ttl = NoTtl
        /\ calls[d].timeout_ms = requestTimeoutMs_

\* C16: under FairSpec (the pool runs each task, the transport closes each
\* channel), every call whose query was accepted and whose task was submitted
\* eventually resolves, whatever entries were delivered before the closure;
\* and a collector that finds its channel closed and drained returns on that
\* receive.
C16_DispatchedEventuallyResolves ==
    /\ \A c \in 1..MaxCalls :
          (c \in CallIds /\ calls[c].task = "queued") ~> (c \in CallIds /\ calls[c].resolved)
    /\ [][\A c \in CallIds :
            (calls[c].task = "queued" /\ calls[c].closed /\ calls[c].fifo = <<>>
             /\ calls'[c] # calls[c]) =>
                (calls'[c].task = "done" /\ calls'[c].resolved)]_vars

C16_Witness ==
    \E c \in CallIds :
        /\ calls[c].get = "ok" /\ calls[c].task = "done" /\ calls[c].resolved
        /\ calls[c].closed /\ calls[c].fifo = <<>>
        /\ Len(calls[c].taken) = MaxReplies
        /\ \A i \in 1..Len(calls[c].taken) : calls[c].taken[i] \in {ValidA, ValidB}

InitPcs == {"init56", "init58", "init62", "init75", "init82", "init85"}

RECURSIVE HeldBy(_)
HeldBy(ts) ==
    IF ts = {} THEN 0
    ELSE LET t == CHOOSE u \in ts : TRUE IN held[t] + HeldBy(ts \ {t})

\* every init()/term() call made so far is an init() that has returned OK or
\* is still running
OnlyInits == HeldBy(Threads) + Cardinality({t \in Threads : pc[t] \in InitPcs}) = lifeOps

\* C17: while the only lifecycle calls are init() calls, concurrent or not,
\* and the session manager does not fail, the session is initialized and the
\* thread pool built at most once, exactly once when the calls have returned,
\* the count then equals the number of calls, and every init() that returns
\* otherwise than by a session failure returns OK.
C17_ConcurrentInitOnce ==
    /\ [](OnlyInits =>
            /\ sessionInits <= 1 /\ poolsMade <= 1
            /\ refCount_ = HeldBy(Threads)
            /\ (LifeIdle /\ lifeOps >= 1) =>
                  (sessionInits = 1 /\ poolsMade = 1 /\ session_ = "open"
                   /\ threadPool_ = "live" /\ refCount_ = lifeOps))
    /\ [][\A t \in Threads :
            (pc[t] \in InitPcs \ {"init62"} /\ pc'[t] = "idle") =>
                ret'[t] = StatusOf("init", "OK")]_vars

C17_Witness ==
    /\ OnlyInits /\ lifeOps = NumThreads
    /\ \E t \in Threads :
          /\ pc[t] = "init82" /\ mutex_ = t /\ sessionInits = 1 /\ refCount_ = 0
          /\ \A u \in Threads \ {t} : pc[u] = "init56"

\* C18: a call abandoned because its record could not be serialized leaves
\* nothing behind: no attachment map, no reply channel, no query, no task, and
\* nothing was released that the call had not created.  Stated for runs in
\* which every term() matches an earlier init().
C18_SerializeFailureLeavesNothing ==
    ~unmatched => \A c \in CallIds :
        (calls[c].get = "no" /\ \A t \in Threads : cur[t] # c) =>
            /\ calls[c].map = "uninit"
            /\ calls[c].channel = "null" /\ calls[c].recv = "none"
            /\ calls[c].deletes = 0 /\ calls[c].drops = 0
            /\ calls[c].task = "none" /\ calls[c].keyexpr = <<>>

\* C19: in runs where each thread calls term() only after an init() of its
\* own returned OK, the session is open whenever some init() has returned OK
\* and the term() matching it has not started (a session whose teardown
\* failed is counted as still open).
C19_SessionOpenWhileHeld ==
    ~unmatched =>
        ((\E t \in Threads : held[t] > 0) => session_ \in {"open", "termFailed"})

\* C20: a term() that returns UNAVAILABLE because the teardown failed has not
\* consumed a reference: in runs where every term() matches an earlier
\* init(), with no init() or term() in progress, the count is 0 only if the
\* session was torn down or never initialized.
C20_FailedTeardownKeepsCount ==
    (~unmatched /\ LifeIdle /\ refCount_ = 0) => session_ \in {"null", "closed"}

====
